---- MODULE Spec2Model ----
(***************************************************************************)
(* Payment screening engine (payment_screening_api.py): text               *)
(* normalisation, similarity metrics, sanctioned-country detection,        *)
(* composite scoring and the RELEASE / ESCALATE decision.                  *)
(*                                                                         *)
(* Texts are TLA+ strings; the i-th character of s is Char(s, i).          *)
(* Scores are exact rationals written as integers in units of 1/SCALE;     *)
(* the rounding error of Python's binary floating point is not modelled.   *)
(***************************************************************************)
EXTENDS Integers, Sequences, FiniteSets, TLC

VARIABLES
    WATCHLIST,      \* the module-level watchlist table (a list of entries)
    set_order,      \* iteration order of the set SANCTIONED_COUNTRIES in this process
    payload,        \* the payload of the last screen_payment call
    candidates,     \* screen_payment's local list `candidates`, in generation order
    result,         \* the dict returned by the last screen_payment call
    call,           \* the last direct call of a helper: [fn, arg, ret]
    pc,             \* "idle": no call made or kept; "returned": a call has returned
    threads         \* per concurrent caller, the locals of its screen_payment call

vars == <<WATCHLIST, set_order, payload, candidates, result, call, pc, threads>>

\* Python's None
None == "<None>"

-----------------------------------------------------------------------------
(* Characters and character classes of Python's str and re.                *)

Char(s, i) == SubSeq(s, i, i)

UPPER == "ABCDEFGHIJKLMNOPQRSTUVWXYZ"
LOWER == "abcdefghijklmnopqrstuvwxyz"
DIGITS == "0123456789"

\* the set of the characters of str
Chars(str) == {Char(str, i) : i \in 1..Len(str)}

UpperSet == Chars(UPPER)
LowerSet == Chars(LOWER)
DigitSet == Chars(DIGITS)
LowerOf == [c \in UpperSet |-> Char(LOWER, CHOOSE i \in 1..Len(UPPER) : Char(UPPER, i) = c)]
UpperOf == [c \in LowerSet |-> Char(UPPER, CHOOSE i \in 1..Len(LOWER) : Char(LOWER, i) = c)]

\* str.lower() on one character
ToLower(c) == IF c \in UpperSet THEN LowerOf[c] ELSE c

RECURSIVE lower(_)
lower(s) == IF s = "" THEN "" ELSE ToLower(Head(s)) \o lower(Tail(s))

\* str.upper() on one character
ToUpper(c) == IF c \in LowerSet THEN UpperOf[c] ELSE c

RECURSIVE upper(_)
upper(s) == IF s = "" THEN "" ELSE ToUpper(Head(s)) \o upper(Tail(s))

\* the regex class \s (and the characters str.strip() removes)
WS == Chars(" \t\n")

\* the regex class \w
WordSet == LowerSet \cup UpperSet \cup DigitSet \cup {"_"}
IsWordChar(c) == c \in WordSet

RECURSIVE lstrip(_)
lstrip(s) == IF s # "" /\ Head(s) \in WS THEN lstrip(Tail(s)) ELSE s

RECURSIVE rstrip(_)
rstrip(s) ==
    IF s # "" /\ Char(s, Len(s)) \in WS THEN rstrip(SubSeq(s, 1, Len(s) - 1)) ELSE s

strip(s) == rstrip(lstrip(s))

RECURSIVE DropClass(_, _)
DropClass(s, cls) == IF s # "" /\ Head(s) \in cls THEN DropClass(Tail(s), cls) ELSE s

\* re.sub(r"[cls]+", " ", s): every maximal run of characters of cls becomes one space
RECURSIVE SubRuns(_, _)
SubRuns(s, cls) ==
    IF s = "" THEN ""
    ELSE IF Head(s) \in cls THEN " " \o SubRuns(DropClass(Tail(s), cls), cls)
    ELSE Head(s) \o SubRuns(Tail(s), cls)

\* \b at the gap before character p of s (p in 1..Len(s)+1)
IsWordAt(s, p) == p >= 1 /\ p <= Len(s) /\ IsWordChar(Char(s, p))
WordBoundary(s, p) == IsWordAt(s, p - 1) # IsWordAt(s, p)

\* the literal w occupies s[i .. i+Len(w)-1] with \b on both sides
WordAt(s, i, w) ==
    /\ i + Len(w) - 1 <= Len(s)
    /\ SubSeq(s, i, i + Len(w) - 1) = w
    /\ WordBoundary(s, i)
    /\ WordBoundary(s, i + Len(w))

\* re.search(re.escape(w), s): the pattern without its two \b
SearchWord_Substring(s, w) ==
    \E i \in 1..Len(s) : i + Len(w) - 1 <= Len(s) /\ SubSeq(s, i, i + Len(w) - 1) = w

\* re.search(rf"\b{re.escape(w)}\b", s)
SearchWord(s, w) == \E i \in 1..Len(s) : WordAt(s, i, w)

-----------------------------------------------------------------------------
(* Sanctioned countries and the country normaliser.                        *)

SANCTIONED_COUNTRIES_RAW == <<"pakistan", "iran", "syria", "ukraine", "cuba", "south korea">>

\* SANCTION_ALIASES.get(s, s)
SANCTION_ALIASES(s) ==
    IF s = "ukraise" THEN "ukraine"
    ELSE IF s = "u k r a i s e" THEN "ukraine"
    ELSE s

COUNTRY_PUNCT == Chars(".,;:-()[]/\\")

_norm(s) ==
    IF s = "" \/ s = None THEN ""
    ELSE strip(SubRuns(SubRuns(lower(strip(s)), COUNTRY_PUNCT), WS))

\* canonical_country after its call of _norm: n is the normalised text
ResolveAlias(n) == IF n = "" THEN "" ELSE SANCTION_ALIASES(n)

\* canonical_country without the alias table
canonical_country_NoAlias(s) == _norm(s)

canonical_country(s) == ResolveAlias(_norm(s))

SANCTIONED_COUNTRIES ==
    {canonical_country(SANCTIONED_COUNTRIES_RAW[i]) : i \in 1..Len(SANCTIONED_COUNTRIES_RAW)}

\* for sc in SANCTIONED_COUNTRIES, taken in the order `order`: the first name
\* that text holds as a whole word or phrase
RECURSIVE FirstHit(_, _, _)
FirstHit(text, order, k) ==
    IF k > Len(order) THEN <<FALSE, None>>
    ELSE IF SearchWord(text, order[k]) THEN <<TRUE, order[k]>>
    ELSE FirstHit(text, order, k + 1)

\* order is the iteration order of the global set SANCTIONED_COUNTRIES
address_has_sanctioned_country(addr, order) == FirstHit(_norm(addr), order, 1)

InSanctioned(can) == <<can \in SANCTIONED_COUNTRIES, can>>

is_sanctioned_country(country_str) == InSanctioned(canonical_country(country_str))

-----------------------------------------------------------------------------
(* Abbreviations, normalize_text, tokenize.                                *)

\* the seven literal whole-word entries of ABBR, in the dict's insertion order
ABBR == << <<"st", "street">>, <<"str", "street">>, <<"rd", "road">>,
           <<"ave", "avenue">>, <<"av", "avenue">>, <<"blvd", "boulevard">>,
           <<"ln", "lane">> >>

\* re.sub(rf"\b{w}\b", repl, s), scanning from character i
RECURSIVE SubWord(_, _, _, _)
SubWord(s, i, w, repl) ==
    IF i > Len(s) THEN ""
    ELSE IF WordAt(s, i, w) THEN repl \o SubWord(s, i + Len(w), w, repl)
    ELSE Char(s, i) \o SubWord(s, i + 1, w, repl)

RECURSIVE SkipWS(_, _)
SkipWS(s, i) == IF i <= Len(s) /\ Char(s, i) \in WS THEN SkipWS(s, i + 1) ELSE i

SkipDot(s, i) == IF i <= Len(s) /\ Char(s, i) = "." THEN i + 1 ELSE i

\* the last ABBR pattern, \bp\.?\s*o\.?\s*box\b, matched at character i:
\* the index after the match, or 0 when it does not match there
POBoxEnd(s, i) ==
    IF ~(i <= Len(s) /\ Char(s, i) = "p" /\ WordBoundary(s, i)) THEN 0
    ELSE LET o == SkipWS(s, SkipDot(s, i + 1)) IN
         IF ~(o <= Len(s) /\ Char(s, o) = "o") THEN 0
         ELSE LET b == SkipWS(s, SkipDot(s, o + 1)) IN
              IF b + 2 <= Len(s) /\ SubSeq(s, b, b + 2) = "box" /\ WordBoundary(s, b + 3)
              THEN b + 3 ELSE 0

RECURSIVE SubPOBox(_, _)
SubPOBox(s, i) ==
    IF i > Len(s) THEN ""
    ELSE IF POBoxEnd(s, i) # 0 THEN "po box" \o SubPOBox(s, POBoxEnd(s, i))
    ELSE Char(s, i) \o SubPOBox(s, i + 1)

\* for pat, repl in ABBR.items(): s = re.sub(pat, repl, s)
RECURSIVE ApplyAbbr(_, _)
ApplyAbbr(s, k) ==
    IF k > Len(ABBR) THEN SubPOBox(s, 1)
    ELSE ApplyAbbr(SubWord(s, 1, ABBR[k][1], ABBR[k][2]), k + 1)

TEXT_PUNCT == Chars("()[].,;:!@#$%^&*-_/\\")

\* the abbreviations expanded before the punctuation is removed
normalize_text_AbbrFirst(s) ==
    IF s = "" \/ s = None THEN ""
    ELSE strip(SubRuns(SubRuns(ApplyAbbr(lower(s), 1), TEXT_PUNCT), WS))

normalize_text(s) ==
    IF s = "" \/ s = None THEN ""
    ELSE strip(SubRuns(ApplyAbbr(SubRuns(lower(s), TEXT_PUNCT), 1), WS))

\* re.split(r"\s+", s) without the empty pieces
RECURSIVE SplitWS(_, _)
SplitWS(s, cur) ==
    IF s = "" THEN (IF cur = "" THEN <<>> ELSE <<cur>>)
    ELSE IF Head(s) \in WS
         THEN (IF cur = "" THEN <<>> ELSE <<cur>>) \o SplitWS(DropClass(s, WS), "")
    ELSE SplitWS(Tail(s), cur \o Head(s))

tokenize(s) == SplitWS(normalize_text(s), "")

-----------------------------------------------------------------------------
(* Similarity metrics.  A score x of the program is the integer x * SCALE. *)

\* LcmLen is lcm(1..12): with normalised texts of at most 12 characters (and
\* at most 12 tokens) every division the metrics and the scorer perform on
\* multiples of 1/SCALE is exact
LcmLen == 8 * 9 * 5 * 7 * 11
SCALE == LcmLen * 1500

Range(seq) == {seq[i] : i \in 1..Len(seq)}

\* the ratio over the token lists with their repetitions
jaccard_Counted(a_tokens, b_tokens) ==
    LET B == Range(b_tokens)
        inter == Cardinality({i \in 1..Len(a_tokens) : a_tokens[i] \in B})
    IN  IF Len(a_tokens) = 0 /\ Len(b_tokens) = 0 THEN SCALE
        ELSE IF Len(a_tokens) = 0 \/ Len(b_tokens) = 0 THEN 0
        ELSE inter * (SCALE \div (Len(a_tokens) + Len(b_tokens) - inter))

\* the ratio with an empty side counted as full overlap
jaccard_EmptyIsOne(a_tokens, b_tokens) ==
    LET A == Range(a_tokens)
        B == Range(b_tokens)
    IN  IF A = {} \/ B = {} THEN SCALE
        ELSE Cardinality(A \cap B) * (SCALE \div Cardinality(A \cup B))

jaccard(a_tokens, b_tokens) ==
    LET A == Range(a_tokens)
        B == Range(b_tokens)
    IN  IF A = {} /\ B = {} THEN SCALE
        ELSE IF A = {} \/ B = {} THEN 0
        ELSE Cardinality(A \cap B) * (SCALE \div Cardinality(A \cup B))

Max2(a, b) == IF a >= b THEN a ELSE b
Min2(a, b) == IF a <= b THEN a ELSE b

\* the matching loop of jaro_similarity over i (1-based); m1, m2 are the
\* positions of s1 and s2 flagged in s1_matches and s2_matches
RECURSIVE MatchLoop(_, _, _, _, _)
MatchLoop(s1, s2, i, m1, m2) ==
    IF i > Len(s1) THEN <<m1, m2>>
    ELSE LET max_dist == Max2(Len(s1), Len(s2)) \div 2 - 1
             start == Max2(0, (i - 1) - max_dist)
             end == Min2((i - 1) + max_dist + 1, Len(s2))
             free == {j \in (start + 1)..end : j \notin m2 /\ Char(s1, i) = Char(s2, j)}
         IN  IF free = {} THEN MatchLoop(s1, s2, i + 1, m1, m2)
             ELSE LET j == CHOOSE x \in free : \A y \in free : x <= y
                  IN  MatchLoop(s1, s2, i + 1, m1 \cup {i}, m2 \cup {j})

\* while not s2_matches[k]: k += 1   (k 1-based; Len(s2) + 1 is past the end)
RECURSIVE SkipUnmatched(_, _, _)
SkipUnmatched(m2, k, len2) ==
    IF k > len2 \/ k \in m2 THEN k ELSE SkipUnmatched(m2, k + 1, len2)

\* the transposition loop: the count of mismatching pairs, or -1 when the index
\* k runs past the end of s2 (IndexError)
RECURSIVE TransLoop(_, _, _, _, _, _, _)
TransLoop(s1, s2, m1, m2, i, k, t) ==
    IF i > Len(s1) THEN t
    ELSE IF i \notin m1 THEN TransLoop(s1, s2, m1, m2, i + 1, k, t)
    ELSE LET k2 == SkipUnmatched(m2, k, Len(s2)) IN
         IF k2 > Len(s2) THEN -1
         ELSE TransLoop(s1, s2, m1, m2, i + 1, k2 + 1,
                        IF Char(s1, i) # Char(s2, k2) THEN t + 1 ELSE t)

\* the last two statements of jaro_similarity; tr is the count of the
\* transposition loop before it is halved
JaroValue(len1, len2, matches, tr) ==
    IF tr < 0 THEN -1
    ELSE ( matches * (SCALE \div len1)
         + matches * (SCALE \div len2)
         + (matches - tr \div 2) * (SCALE \div matches) ) \div 3

\* the transposition loop entered with k one position too far
JaroAfterMatch_LateStart(s1, s2, m1, m2) ==
    IF Cardinality(m1) = 0 THEN 0
    ELSE JaroValue(Len(s1), Len(s2), Cardinality(m1), TransLoop(s1, s2, m1, m2, 1, 2, 0))

\* jaro_similarity after its matching loop has flagged m1 and m2
JaroAfterMatch(s1, s2, m1, m2) ==
    IF Cardinality(m1) = 0 THEN 0
    ELSE JaroValue(Len(s1), Len(s2), Cardinality(m1), TransLoop(s1, s2, m1, m2, 1, 1, 0))

JaroOfMatch(s1, s2, mm) == JaroAfterMatch(s1, s2, mm[1], mm[2])

\* the emptiness check made before the equality check
JaroStr_EmptyFirst(s1, s2) ==
    IF Len(s1) = 0 \/ Len(s2) = 0 THEN 0
    ELSE IF s1 = s2 THEN SCALE
    ELSE JaroOfMatch(s1, s2, MatchLoop(s1, s2, 1, {}, {}))

\* jaro_similarity on two str
JaroStr(s1, s2) ==
    IF s1 = s2 THEN SCALE
    ELSE IF Len(s1) = 0 \/ Len(s2) = 0 THEN 0
    ELSE JaroOfMatch(s1, s2, MatchLoop(s1, s2, 1, {}, {}))

\* s or ""
OrEmpty(s) == IF s = None THEN "" ELSE s

jaro_similarity(s1, s2) == JaroStr(OrEmpty(s1), OrEmpty(s2))

\* the loop over zip(s1n, s2n): the common prefix length, at most max_l
RECURSIVE PrefixLen(_, _, _, _)
PrefixLen(s1n, s2n, l, max_l) ==
    IF l < Len(s1n) /\ l < Len(s2n) /\ Char(s1n, l + 1) = Char(s2n, l + 1)
    THEN (IF l + 1 = max_l THEN l + 1 ELSE PrefixLen(s1n, s2n, l + 1, max_l))
    ELSE l

\* the boost taken from the prefix length alone
Boost_Flat(j, l) == j + l * (SCALE \div 10)

\* the boost without the scaling factor p
Boost_Unscaled(j, l) == j + l * (SCALE - j)

\* return j + l * p * (1 - j), with p = 0.1
Boost(j, l) == j + (l * (SCALE - j)) \div 10

\* the boost given only when all of the first max_l characters agree
WinklerOf_AllOrNothing(s1n, s2n) ==
    Boost(jaro_similarity(s1n, s2n), IF PrefixLen(s1n, s2n, 0, 4) = 4 THEN 4 ELSE 0)

\* jaro_winkler on the normalised texts, with max_l = 4
WinklerOf(s1n, s2n) == Boost(jaro_similarity(s1n, s2n), PrefixLen(s1n, s2n, 0, 4))

\* jaro_winkler with the defaults p = 0.1, max_l = 4
jaro_winkler(s1, s2) == WinklerOf(normalize_text(s1), normalize_text(s2))

-----------------------------------------------------------------------------
(* Composite scoring.                                                      *)

RECURSIVE MaxOf(_, _)
MaxOf(sims, k) == IF k = Len(sims) THEN sims[k] ELSE Max2(sims[k], MaxOf(sims, k + 1))

\* sims of name_similarity: for each candidate name the two metric values
RECURSIVE NameSims(_, _, _)
NameSims(input_name, cands, k) ==
    IF k > Len(cands) THEN <<>>
    ELSE << jaro_winkler(input_name, cands[k]),
            jaccard(tokenize(input_name), tokenize(cands[k])) \div 2 >>
         \o NameSims(input_name, cands, k + 1)

\* max(sims) if sims else 0.0
MaxOrZero(sims) == IF sims # <<>> THEN MaxOf(sims, 1) ELSE 0

\* the argument wl_aka when the entry has no list of aliases (None)
NoAka == <<None>>

\* the best score against the primary name alone
name_similarity_PrimaryOnly(input_name, wl_name, wl_aka) ==
    MaxOrZero(NameSims(input_name, <<wl_name>>, 1))

name_similarity(input_name, wl_name, wl_aka) ==
    MaxOrZero(NameSims(input_name,
                       <<wl_name>> \o (IF wl_aka = NoAka THEN <<>> ELSE wl_aka), 1))

address_similarity(input_addr, wl_addr) ==
    ( 2 * jaro_winkler(input_addr, wl_addr)
    + 3 * jaccard(tokenize(input_addr), tokenize(wl_addr)) ) \div 5

IsDigit(c) == c \in DigitSet
Digit(c) == (CHOOSE i \in 1..Len(DIGITS) : Char(DIGITS, i) = c) - 1
IsDigitAt(s, i) == i <= Len(s) /\ IsDigit(Char(s, i))
Num2(s, i) == 10 * Digit(Char(s, i)) + Digit(Char(s, i + 1))

IsLeap(y) == (y % 4 = 0 /\ y % 100 # 0) \/ y % 400 = 0
DaysInMonth(y, m) ==
    IF m = 2 THEN (IF IsLeap(y) THEN 29 ELSE 28)
    ELSE IF m \in {4, 6, 9, 11} THEN 30 ELSE 31

\* the month field of the format regex, (1[0-2]|0[1-9]|[1-9]), at character i:
\* its length, or 0
MonthLen(s, i) ==
    IF IsDigitAt(s, i) /\ IsDigitAt(s, i + 1) /\ Num2(s, i) \in 1..12 THEN 2
    ELSE IF IsDigitAt(s, i) /\ Digit(Char(s, i)) \in 1..9 THEN 1
    ELSE 0

\* the day field, (3[01]|[12]\d|0[1-9]|[1-9]| [1-9]), at character i
DayLen(s, i) ==
    IF IsDigitAt(s, i) /\ IsDigitAt(s, i + 1) /\ Num2(s, i) \in 1..31 THEN 2
    ELSE IF IsDigitAt(s, i) /\ Digit(Char(s, i)) \in 1..9 THEN 1
    ELSE IF i <= Len(s) /\ Char(s, i) = " " /\ IsDigitAt(s, i + 1)
            /\ Digit(Char(s, i + 1)) \in 1..9 THEN 2
    ELSE 0

FieldNum(s, i, n) ==
    IF n = 1 THEN Digit(Char(s, i))
    ELSE IF Char(s, i) = " " THEN Digit(Char(s, i + 1))
    ELSE Num2(s, i)

\* date(y, m, d): the date, or <<>> when it raises ValueError
MakeDate(y, m, d) == IF y >= 1 /\ d <= DaysInMonth(y, m) THEN <<y, m, d>> ELSE <<>>

\* strptime from the day field on: the month field has ml characters, the day
\* field dl; text after the day field is "unconverted data"
ParseDay(s, ml, dl) ==
    IF dl = 0 \/ 7 + ml + dl - 1 # Len(s) THEN <<>>
    ELSE MakeDate(100 * Num2(s, 1) + Num2(s, 3), FieldNum(s, 6, ml), FieldNum(s, 7 + ml, dl))

ParseMonth(s, ml) ==
    IF ml = 0 \/ ~(6 + ml <= Len(s) /\ Char(s, 6 + ml) = "-") THEN <<>>
    ELSE ParseDay(s, ml, DayLen(s, 7 + ml))

\* datetime.strptime(s, "%Y-%m-%d").date(): <<year, month, day>>, or <<>> when
\* strptime raises ValueError
strptime(s) ==
    IF ~(\A i \in 1..4 : IsDigitAt(s, i)) \/ ~(Len(s) >= 5 /\ Char(s, 5) = "-") THEN <<>>
    ELSE ParseMonth(s, MonthLen(s, 6))

\* the try block of dob_similarity on the two parse results
SameDate(d1, d2) ==
    IF d1 = <<>> \/ d2 = <<>> THEN 0
    ELSE IF d1 = d2 THEN SCALE ELSE 0

\* the comparison of the two texts in place of the two dates
dob_similarity_TextEqual(input_dob, wl_dob) ==
    IF input_dob = "" \/ input_dob = None \/ wl_dob = "" \/ wl_dob = None THEN 0
    ELSE IF input_dob = wl_dob THEN SCALE ELSE 0

dob_similarity(input_dob, wl_dob) ==
    IF input_dob = "" \/ input_dob = None \/ wl_dob = "" \/ wl_dob = None THEN 0
    ELSE SameDate(strptime(input_dob), strptime(wl_dob))

\* the bonus from a comparison of the two canonical countries
country_bonus_Aliased(input_country, wl_country) ==
    IF input_country = "" \/ input_country = None \/ wl_country = "" \/ wl_country = None
    THEN 0
    ELSE IF canonical_country(input_country) = canonical_country(wl_country)
         THEN SCALE \div 20 ELSE 0

\* the bonus from a comparison of the two strings as given
country_bonus_Raw(input_country, wl_country) ==
    IF input_country = "" \/ input_country = None \/ wl_country = "" \/ wl_country = None
    THEN 0
    ELSE IF input_country = wl_country THEN SCALE \div 20 ELSE 0

country_bonus(input_country, wl_country) ==
    IF input_country = "" \/ input_country = None \/ wl_country = "" \/ wl_country = None
    THEN 0
    ELSE IF upper(_norm(input_country)) = upper(_norm(wl_country)) THEN SCALE \div 20 ELSE 0

\* the sum with the weights of name and address exchanged
WeightedSum_Swapped(n, a, d, c) == 3 * (n \div 10) + 3 * (a \div 5) + d \div 20 + c

\* score = 0.60 * n + 0.30 * a + 0.05 * d + c
WeightedSum(n, a, d, c) == 3 * (n \div 5) + 3 * (a \div 10) + d \div 20 + c

\* the return statement reporting the canonical country whether or not it is
\* sanctioned
ScoreAndBreakdown_NameAlways(n, a, d, c, party, addr) ==
    << Min2(SCALE, WeightedSum(n, a, d, c)),
       [ name |-> n, address |-> a, dob |-> d, country |-> c,
         sanction_party_country |-> party[1],
         sanction_party_country_name |-> party[2],
         sanction_address_hit |-> addr[1],
         sanction_address_match |-> addr[2] ] >>

\* the return statement of composite_risk_score, from the values of its locals
ScoreAndBreakdown(n, a, d, c, party, addr) ==
    << Min2(SCALE, WeightedSum(n, a, d, c)),
       [ name |-> n, address |-> a, dob |-> d, country |-> c,
         sanction_party_country |-> party[1],
         sanction_party_country_name |-> IF party[1] THEN party[2] ELSE None,
         sanction_address_hit |-> addr[1],
         sanction_address_match |-> addr[2] ] >>

\* returns <<score, breakdown>>; order is the iteration order of the global set
\* SANCTIONED_COUNTRIES, which address_has_sanctioned_country reads
composite_risk_score(name_in, addr_in, country_in, dob_in, wl, order) ==
    ScoreAndBreakdown(name_similarity(name_in, wl.name, wl.aka),
                      address_similarity(addr_in, wl.address),
                      dob_similarity(dob_in, wl.dob),
                      country_bonus(country_in, wl.country),
                      is_sanctioned_country(country_in),
                      address_has_sanctioned_country(addr_in, order))

-----------------------------------------------------------------------------
(* The texts of the model.                                                 *)

\* Watchlist entries of the model.  They keep the shape of the seed entries
\* of the source (a person with aliases and a date of birth, a person whose
\* alias is a place name, an organisation without date of birth) with texts
\* short enough for SCALE.
Entries ==
    { [name |-> "Li Wei", aka |-> <<"Wei Li", "L. Wei">>, address |-> "5 Elm St",
       country |-> "CN", dob |-> "1983-11-23", list |-> "OFAC SDN",
       category |-> "Proliferation"],
      [name |-> "Hafiz", aka |-> <<"Lahore">>, address |-> "Lahore",
       country |-> "PK", dob |-> "1990-02-01", list |-> "EU Consolidated",
       category |-> "Corruption"],
      [name |-> "GT LLC", aka |-> <<"GT Co.">>, address |-> "PO Box 9",
       country |-> "AE", dob |-> None, list |-> "Internal Watch",
       category |-> "Adverse Media"] }

\* the longest watchlist of the model
MaxWatch == 2

RECURSIVE SeqsUpTo(_, _)
SeqsUpTo(S, n) ==
    IF n = 0 THEN {<<>>}
    ELSE LET shorter == SeqsUpTo(S, n - 1)
         IN  shorter \cup {Append(q, e) : q \in {x \in shorter : Len(x) = n - 1}, e \in S}

Watchlists == SeqsUpTo(Entries, MaxWatch)

\* The iteration order of a set of str is fixed within a process and differs
\* between processes (hash randomisation).  The rotations of the raw list let
\* every sanctioned country come first.
Rotate(seq, k) == SubSeq(seq, k + 1, Len(seq)) \o SubSeq(seq, 1, k)
SetOrders == {Rotate(SANCTIONED_COUNTRIES_RAW, k) : k \in 0..(Len(SANCTIONED_COUNTRIES_RAW) - 1)}

\* One side of a transaction: <<name, address, country, dob>>
Parties ==
    { <<"", "", "", "">>,
      <<"Li Wei", "5 Elm St.", "cn", "1983-11-23">>,
      <<"Li Wei", "", "CN", "1983-11-23">>,
      <<"Hafiz", "aho", "pk", "1990-2-1">>,
      <<"Hafiz", "aho", "", "1990-02-01">>,
      <<"Hafiz", "aho", "", "">>,
      <<"", "", " IRAN.", "">>,
      <<"", "cuba", "", "">>,
      <<"", "Iran, Cuba", "Syria", "">>,
      <<"", "Tirana", "", "31-12-1990">>,
      <<"GT Co", "P.O. Box 9", "Ukraise", "">>,
      <<"GT Co", "P.O. Box 9", "u-k-r-a-i-s-e", "">>,
      <<"GT Co", "P.O. Box 9", "ukraine", "">> }

MakePayload(payer, benef) ==
    [ payer_name |-> payer[1], payer_address |-> payer[2],
      payer_country |-> payer[3], payer_dob |-> payer[4],
      benef_name |-> benef[1], benef_address |-> benef[2],
      benef_country |-> benef[3], benef_dob |-> benef[4] ]

Payloads == {MakePayload(a, b) : a \in Parties, b \in Parties}

\* composite_risk_score tabulated once on the texts of the model
ScoreTable ==
    [ o \in SetOrders |-> [ pt \in Parties |-> [ e \in Entries |->
        composite_risk_score(pt[1], pt[2], pt[3], pt[4], e, o) ] ] ]

\* the value of composite_risk_score(...), read from ScoreTable
Composite(name_in, addr_in, country_in, dob_in, wl, order) ==
    ScoreTable[order][<<name_in, addr_in, country_in, dob_in>>][wl]

-----------------------------------------------------------------------------
(* Screening logic.                                                        *)

THRESHOLD == 4 * (SCALE \div 5)

\* the two appends one breakdown makes to sanction_reasons
ReasonsOf(bd, role) ==
    (IF bd.sanction_party_country
     THEN << role \o " country in sanctioned list: " \o bd.sanction_party_country_name >>
     ELSE <<>>)
    \o
    (IF bd.sanction_address_hit
     THEN << role \o " address mentions sanctioned country: " \o bd.sanction_address_match >>
     ELSE <<>>)

\* the flag raised by the party country alone
FlagOf_CountryOnly(bd) == bd.sanction_party_country

\* whether one breakdown sets sanction_flag_any
FlagOf(bd) == bd.sanction_party_country \/ bd.sanction_address_hit

RECURSIVE AppendNew(_, _)
AppendNew(seq, lines) ==
    IF lines = <<>> THEN seq
    ELSE AppendNew(IF \E i \in 1..Len(seq) : seq[i] = Head(lines) THEN seq
                   ELSE Append(seq, Head(lines)), Tail(lines))

\* the iteration with sanction_reasons kept free of duplicates
ScanStep_DedupReasons(st, wl, payer, benef) ==
    [ candidates |-> st.candidates \o
          << [role |-> "PAYER", wl |-> wl, score |-> payer[1], breakdown |-> payer[2]],
             [role |-> "BENEFICIARY", wl |-> wl, score |-> benef[1],
              breakdown |-> benef[2]] >>,
      sanction_flag_any |-> st.sanction_flag_any \/ FlagOf(payer[2]) \/ FlagOf(benef[2]),
      sanction_reasons |-> AppendNew(st.sanction_reasons,
          ReasonsOf(payer[2], "PAYER") \o ReasonsOf(benef[2], "BENEFICIARY")) ]

\* the iteration keeping only the candidates that score above zero
ScanStep_SkipZero(st, wl, payer, benef) ==
    [ candidates |-> st.candidates
          \o (IF payer[1] > 0
              THEN << [role |-> "PAYER", wl |-> wl, score |-> payer[1],
                       breakdown |-> payer[2]] >>
              ELSE <<>>)
          \o (IF benef[1] > 0
              THEN << [role |-> "BENEFICIARY", wl |-> wl, score |-> benef[1],
                       breakdown |-> benef[2]] >>
              ELSE <<>>),
      sanction_flag_any |-> st.sanction_flag_any \/ FlagOf(payer[2]) \/ FlagOf(benef[2]),
      sanction_reasons |-> st.sanction_reasons
          \o ReasonsOf(payer[2], "PAYER")
          \o ReasonsOf(benef[2], "BENEFICIARY") ]

\* one iteration of the loop `for wl in WATCHLIST`: payer and benef are the
\* two results of composite_risk_score, st holds the three locals
ScanStep(st, wl, payer, benef) ==
    [ candidates |-> st.candidates \o
          << [role |-> "PAYER", wl |-> wl, score |-> payer[1], breakdown |-> payer[2]],
             [role |-> "BENEFICIARY", wl |-> wl, score |-> benef[1],
              breakdown |-> benef[2]] >>,
      sanction_flag_any |-> st.sanction_flag_any \/ FlagOf(payer[2]) \/ FlagOf(benef[2]),
      sanction_reasons |-> st.sanction_reasons
          \o ReasonsOf(payer[2], "PAYER")
          \o ReasonsOf(benef[2], "BENEFICIARY") ]

\* the loop `for wl in WATCHLIST` from entry k on
RECURSIVE ScanWatchlist(_, _, _, _)
ScanWatchlist(p, wlist, k, st) ==
    IF k > Len(wlist) THEN st
    ELSE ScanWatchlist(p, wlist, k + 1,
           ScanStep(st, wlist[k],
                    Composite(p.payer_name, p.payer_address, p.payer_country,
                              p.payer_dob, wlist[k], set_order),
                    Composite(p.benef_name, p.benef_address, p.benef_country,
                              p.benef_dob, wlist[k], set_order)))

\* the last element with the greatest score
MaxByScore_Last(cands) ==
    cands[CHOOSE i \in 1..Len(cands) :
            /\ \A j \in 1..Len(cands) : cands[j].score <= cands[i].score
            /\ \A j \in (i + 1)..Len(cands) : cands[j].score < cands[i].score]

\* max(cands, key=lambda x: x[2]): the first element with the greatest score
MaxByScore(cands) ==
    cands[CHOOSE i \in 1..Len(cands) :
            /\ \A j \in 1..Len(cands) : cands[j].score <= cands[i].score
            /\ \A j \in 1..(i - 1) : cands[j].score < cands[i].score]

\* an insertion that puts c before the elements of equal score
RECURSIVE InsertDesc_BeforeEqual(_, _)
InsertDesc_BeforeEqual(sorted, c) ==
    IF sorted = <<>> THEN <<c>>
    ELSE IF Head(sorted).score > c.score
         THEN <<Head(sorted)>> \o InsertDesc_BeforeEqual(Tail(sorted), c)
    ELSE <<c>> \o sorted

\* one insertion of the stable descending sort: c goes after every element
\* whose score is at least its own
RECURSIVE InsertDesc(_, _)
InsertDesc(sorted, c) ==
    IF sorted = <<>> THEN <<c>>
    ELSE IF Head(sorted).score >= c.score THEN <<Head(sorted)>> \o InsertDesc(Tail(sorted), c)
    ELSE <<c>> \o sorted

\* sorted(cands, key=lambda z: z["score"], reverse=True)
RECURSIVE SortedDesc(_)
SortedDesc(cands) ==
    IF cands = <<>> THEN <<>>
    ELSE InsertDesc(SortedDesc(SubSeq(cands, 1, Len(cands) - 1)), cands[Len(cands)])

\* the decision with the score threshold tested first
Decide_ScoreFirst(sanction_flag_any, score) ==
    IF score >= THRESHOLD THEN <<"ESCALATE", "Score Threshold">>
    ELSE IF sanction_flag_any THEN <<"ESCALATE", "Sanctioned Country">>
    ELSE <<"RELEASE", "Below Threshold">>

\* the decision with a strict comparison against the threshold
Decide_Strict(sanction_flag_any, score) ==
    IF sanction_flag_any THEN <<"ESCALATE", "Sanctioned Country">>
    ELSE IF score > THRESHOLD THEN <<"ESCALATE", "Score Threshold">>
    ELSE <<"RELEASE", "Below Threshold">>

\* the if / else after the loop: <<decision, reason>>
Decide(sanction_flag_any, score) ==
    IF sanction_flag_any THEN <<"ESCALATE", "Sanctioned Country">>
    ELSE IF score >= THRESHOLD THEN <<"ESCALATE", "Score Threshold">>
    ELSE <<"RELEASE", "Below Threshold">>

\* the loop started with the flag already raised by the two party countries
Scan_FlagBeforeLoop(p) ==
    ScanWatchlist(p, WATCHLIST, 1,
        [candidates |-> <<>>,
         sanction_flag_any |-> is_sanctioned_country(p.payer_country)[1]
                               \/ is_sanctioned_country(p.benef_country)[1],
         sanction_reasons |-> <<>>])

\* the locals of screen_payment after its loop
Scan(p) ==
    ScanWatchlist(p, WATCHLIST, 1,
        [candidates |-> <<>>, sanction_flag_any |-> FALSE, sanction_reasons |-> <<>>])

\* best = max(...) if candidates else None, unpacked with the defaults
\* (None, None, 0.0, {})
BestOf(cands) ==
    IF cands # <<>> THEN MaxByScore(cands)
    ELSE [role |-> None, wl |-> None, score |-> 0, breakdown |-> <<>>]

\* the returned dict, from the locals st, the best candidate and the decision
ResultDict(st, best, dr) ==
    [ decision |-> dr[1],
      reason |-> dr[2],
      best_role |-> best.role,
      best_wl |-> best.wl,
      best_score |-> best.score,
      breakdown |-> best.breakdown,
      sanction_flag |-> st.sanction_flag_any,
      sanction_reasons |-> st.sanction_reasons,
      candidates |-> SortedDesc(st.candidates) ]

ResultWithBest(st, best) == ResultDict(st, best, Decide(st.sanction_flag_any, best.score))

\* the dict screen_payment returns, from its locals st after the loop
ResultOf(st) == ResultWithBest(st, BestOf(st.candidates))

screen_payment(p) == ResultOf(Scan(p))

-----------------------------------------------------------------------------
(* The state machine: a process with some watchlist and some iteration     *)
(* order of the sanctioned-country set serves screening calls one by one.  *)

\* the values of payload and result while no call has been made or is kept
NoPayload == MakePayload(<<None, None, None, None>>, <<None, None, None, None>>)
NoResult ==
    [ decision |-> None, reason |-> None, best_role |-> None, best_wl |-> None,
      best_score |-> 0, breakdown |-> <<>>, sanction_flag |-> FALSE,
      sanction_reasons |-> <<>>, candidates |-> <<>> ]

NoCall == [fn |-> None, arg |-> None, ret |-> None]

\* the concurrent callers of the model
Threads == {1, 2}

\* candidates, sanction_flag_any and sanction_reasons before the loop
NoLocals == [candidates |-> <<>>, sanction_flag_any |-> FALSE, sanction_reasons |-> <<>>]

\* a caller outside screen_payment
IdleThread == [pc |-> "idle", payload |-> NoPayload, k |-> 0, st |-> NoLocals, result |-> NoResult]

Init ==
    /\ WATCHLIST \in Watchlists
    /\ set_order \in SetOrders
    /\ payload = NoPayload
    /\ candidates = <<>>
    /\ result = NoResult
    /\ call = NoCall
    /\ pc = "idle"
    /\ threads = [t \in Threads |-> IdleThread]

\* screen_payment(p) has run its loop, leaving the locals st, and returns
Finish(st) ==
    /\ candidates' = st.candidates
    /\ result' = ResultOf(st)

\* one call screen_payment(p)
Screen(p) ==
    /\ pc = "idle"
    /\ Finish(Scan(p))
    /\ payload' = p
    /\ pc' = "returned"
    /\ UNCHANGED <<WATCHLIST, set_order, call, threads>>

\* the caller has taken the returned value; the call's locals are gone
Return ==
    /\ pc = "returned"
    /\ payload' = NoPayload
    /\ candidates' = <<>>
    /\ result' = NoResult
    /\ call' = NoCall
    /\ pc' = "idle"
    /\ UNCHANGED <<WATCHLIST, set_order, threads>>

Next ==
    \/ \E p \in Payloads : Screen(p)
    \/ Return

Spec == Init /\ [][Next]_vars

-----------------------------------------------------------------------------
(* Direct calls of address_has_sanctioned_country on address texts built   *)
(* around a sanctioned name or a near miss of one.                         *)

\* the longest text put before and after the core of an address
MaxPad == 1

\* a letter, a digit, the underscore, a space, punctuation _norm strips and
\* punctuation it keeps
PadChars == {"t", "2", "_", " ", ",", "'"}

RECURSIVE Pads(_)
Pads(n) ==
    IF n = 0 THEN {""}
    ELSE Pads(n - 1) \cup {q \o c : q \in {x \in Pads(n - 1) : Len(x) = n - 1}, c \in PadChars}

AddressCores == {"iran", "Cuba", "South-Korea", "south  korea", "ira", "ukraise"}

Addresses == {l \o core \o r : l \in Pads(MaxPad), core \in AddressCores, r \in Pads(MaxPad)}

CallAddress(addr) ==
    /\ pc = "idle"
    /\ call' = [fn |-> "address_has_sanctioned_country", arg |-> addr,
                ret |-> address_has_sanctioned_country(addr, set_order)]
    /\ pc' = "returned"
    /\ UNCHANGED <<WATCHLIST, set_order, payload, candidates, result, threads>>

NextAddress ==
    \/ \E addr \in Addresses : CallAddress(addr)
    \/ Return

\* the watchlist plays no part in these calls
InitAddress == Init /\ WATCHLIST = <<>>

SpecAddress == InitAddress /\ [][NextAddress]_vars

-----------------------------------------------------------------------------
(* Direct calls of is_sanctioned_country on country fields: two-letter     *)
(* codes, long-form names and aliases of sanctioned countries, and other   *)
(* countries.                                                               *)

CountryFields ==
    { "PK", "pk", "IR", "SY", "UA", "CU", "KR",
      "pakistan", "Pakistan", "IRAN", " Iran.", "syria", "Ukraine", "cuba",
      "South Korea", "south-korea",
      "ukraise", "Ukraise", "u k r a i s e",
      "CN", "cn", "AE", "india", "north korea", "" }

CallCountry(country_str) ==
    /\ pc = "idle"
    /\ call' = [fn |-> "is_sanctioned_country", arg |-> country_str,
                ret |-> is_sanctioned_country(country_str)]
    /\ pc' = "returned"
    /\ UNCHANGED <<WATCHLIST, set_order, payload, candidates, result, threads>>

NextCountry ==
    \/ \E country_str \in CountryFields : CallCountry(country_str)
    \/ Return

SpecCountry == InitAddress /\ [][NextCountry]_vars

-----------------------------------------------------------------------------
(* Concurrent callers of screen_payment.  Each caller runs the function on *)
(* its own locals; a step is the entry into the function, one iteration of *)
(* the loop over WATCHLIST, or the statements after the loop.  threads[t].k *)
(* is the position of the list iterator of caller t.                        *)

\* the payloads of the concurrent callers
ConcurrentPayloads ==
    { MakePayload(<<"", "Iran, Cuba", "Syria", "">>, <<"Li Wei", "5 Elm St.", "cn", "1983-11-23">>),
      MakePayload(<<"Hafiz", "aho", "pk", "1990-2-1">>, <<"", "", "", "">>),
      MakePayload(<<"", "", "", "">>, <<"", "cuba", "", "">>) }

\* caller t enters screen_payment(p)
Begin(t, p) ==
    /\ threads[t].pc = "idle"
    /\ threads' = [threads EXCEPT ![t] =
                      [pc |-> "loop", payload |-> p, k |-> 1, st |-> NoLocals,
                       result |-> NoResult]]
    /\ UNCHANGED <<WATCHLIST, set_order, payload, candidates, result, call, pc>>

\* the locals of a caller after the loop body for entry wl, the set
\* SANCTIONED_COUNTRIES being iterated in the order `order`
IterateLocals(th, wl, order) ==
    ScanStep(th.st, wl,
             Composite(th.payload.payer_name, th.payload.payer_address,
                       th.payload.payer_country, th.payload.payer_dob, wl, order),
             Composite(th.payload.benef_name, th.payload.benef_address,
                       th.payload.benef_country, th.payload.benef_dob, wl, order))

\* an iteration that takes the entry off the shared watchlist
Iterate_Consume(t) ==
    /\ threads[t].pc = "loop"
    /\ threads[t].k <= Len(WATCHLIST)
    /\ threads' = [threads EXCEPT ![t].st = IterateLocals(threads[t], Head(WATCHLIST), set_order)]
    /\ WATCHLIST' = Tail(WATCHLIST)
    /\ UNCHANGED <<set_order, payload, candidates, result, call, pc>>

\* an iteration in which the set of sanctioned countries has the order of the
\* caller, not of the process
Iterate_OwnOrder(t) ==
    /\ threads[t].pc = "loop"
    /\ threads[t].k <= Len(WATCHLIST)
    /\ threads' = [threads EXCEPT
                      ![t].st = IterateLocals(threads[t], WATCHLIST[threads[t].k],
                                              Rotate(set_order, t - 1)),
                      ![t].k = @ + 1]
    /\ UNCHANGED <<WATCHLIST, set_order, payload, candidates, result, call, pc>>

\* caller t runs the loop body for the next entry of WATCHLIST
Iterate(t) ==
    /\ threads[t].pc = "loop"
    /\ threads[t].k <= Len(WATCHLIST)
    /\ threads' = [threads EXCEPT
                      ![t].st = IterateLocals(threads[t], WATCHLIST[threads[t].k], set_order),
                      ![t].k = @ + 1]
    /\ UNCHANGED <<WATCHLIST, set_order, payload, candidates, result, call, pc>>

\* the iterator of caller t is exhausted: the statements after the loop
Complete(t) ==
    /\ threads[t].pc = "loop"
    /\ threads[t].k > Len(WATCHLIST)
    /\ threads' = [threads EXCEPT ![t].pc = "done", ![t].result = ResultOf(threads[t].st)]
    /\ UNCHANGED <<WATCHLIST, set_order, payload, candidates, result, call, pc>>

\* the caller has taken the returned dict
Collect(t) ==
    /\ threads[t].pc = "done"
    /\ threads' = [threads EXCEPT ![t] = IdleThread]
    /\ UNCHANGED <<WATCHLIST, set_order, payload, candidates, result, call, pc>>

NextConcurrent ==
    \/ \E t \in Threads, p \in ConcurrentPayloads : Begin(t, p)
    \/ \E t \in Threads : Iterate(t)
    \/ \E t \in Threads : Complete(t)
    \/ \E t \in Threads : Collect(t)

SpecConcurrent == Init /\ [][NextConcurrent]_vars

-----------------------------------------------------------------------------
(* The route POST /screen.  A request body is a JSON object: a function    *)
(* from the field names it holds to their values.  The response is the     *)
(* JSON object sent back with its status code; its timestamp is left out.  *)

REQUIRED_FIELDS ==
    << "payer_name", "payer_address", "payer_country",
       "benef_name", "benef_address", "benef_country",
       "amount", "currency" >>

\* [field for field in required_fields if field not in data], with the dates
\* of birth required too
MissingFields_WithDob(data) ==
    LET Absent(f) == f \notin DOMAIN data
    IN  SelectSeq(REQUIRED_FIELDS \o <<"payer_dob", "benef_dob">>, Absent)

\* [field for field in required_fields if field not in data]
MissingFields(data) ==
    LET Absent(f) == f \notin DOMAIN data
    IN  SelectSeq(REQUIRED_FIELDS, Absent)

\* data.get(f, default)
Get(data, f, default) == IF f \in DOMAIN data THEN data[f] ELSE default

\* the digits of s read as a decimal number, after acc
RECURSIVE DigitsValue(_, _)
DigitsValue(s, acc) ==
    IF s = "" THEN acc ELSE DigitsValue(Tail(s), 10 * acc + Digit(Head(s)))

AllDigits(s) == \A i \in 1..Len(s) : IsDigit(Char(s, i))

\* the outcome of float(s) when it raises ValueError
ValueError == 0 - 1

\* float(s) for a text of digits with at most one "." followed by two digits,
\* in hundredths; any other text of the model is no number: ValueError
ParseFloat(s) ==
    IF s # "" /\ AllDigits(s) THEN 100 * DigitsValue(s, 0)
    ELSE IF /\ Len(s) >= 4
            /\ Char(s, Len(s) - 2) = "."
            /\ AllDigits(SubSeq(s, 1, Len(s) - 3))
            /\ AllDigits(SubSeq(s, Len(s) - 1, Len(s)))
         THEN 100 * DigitsValue(SubSeq(s, 1, Len(s) - 3), 0)
              + DigitsValue(SubSeq(s, Len(s) - 1, Len(s)), 0)
    ELSE ValueError

\* the eight fields of the dict `payload` that screen_payment reads
RoutePayload(data) ==
    MakePayload(<<data["payer_name"], data["payer_address"], data["payer_country"],
                  Get(data, "payer_dob", "")>>,
                <<data["benef_name"], data["benef_address"], data["benef_country"],
                  Get(data, "benef_dob", "")>>)

\* the response once no required field is missing; amount is float(data["amount"])
RespondComplete(data, amount) ==
    IF amount = ValueError
    THEN [status |-> 400,
          error |-> "Invalid data format: could not convert string to float: '"
                    \o data["amount"] \o "'"]
    ELSE [status |-> 200,
          screening_result |-> screen_payment(RoutePayload(data)),
          transaction_details |->
              [amount |-> amount, currency |-> data["currency"],
               reference |-> Get(data, "reference", "")]]

\* the response after the validation of the required fields
RespondChecked(data, missing_fields) ==
    IF missing_fields # <<>>
    THEN [status |-> 400, error |-> "Missing required fields",
          missing_fields |-> missing_fields]
    ELSE RespondComplete(data, ParseFloat(data["amount"]))

\* the body of screen() for the request body data
Respond(data) == RespondChecked(data, MissingFields(data))

\* the most fields a request of the model leaves out
MaxMissing == 2

\* two complete request bodies
BaseRequests ==
    { [payer_name |-> "Hafiz", payer_address |-> "aho", payer_country |-> "",
       payer_dob |-> "1990-02-01",
       benef_name |-> "", benef_address |-> "cuba", benef_country |-> "",
       benef_dob |-> "",
       amount |-> "250.00", currency |-> "USD", reference |-> "INV-1"],
      [payer_name |-> "GT Co", payer_address |-> "P.O. Box 9", payer_country |-> "ukraine",
       payer_dob |-> "",
       benef_name |-> "Hafiz", benef_address |-> "aho", benef_country |-> "",
       benef_dob |-> "1990-02-01",
       amount |-> "abc", currency |-> "EUR", reference |-> ""] }

AllFields == Range(REQUIRED_FIELDS) \cup {"payer_dob", "benef_dob", "reference"}

\* a complete body with at most MaxMissing of its fields left out
Requests ==
    { [f \in (AllFields \ out) |-> base[f]] :
        base \in BaseRequests,
        out \in {x \in SUBSET AllFields : Cardinality(x) <= MaxMissing} }

\* one request to POST /screen
ScreenRoute(data) ==
    /\ pc = "idle"
    /\ call' = [fn |-> "screen", arg |-> data, ret |-> Respond(data)]
    /\ pc' = "returned"
    /\ UNCHANGED <<WATCHLIST, set_order, payload, candidates, result, threads>>

NextRoute ==
    \/ \E data \in Requests : ScreenRoute(data)
    \/ Return

SpecRoute == Init /\ [][NextRoute]_vars

-----------------------------------------------------------------------------
(* Direct calls of the three similarity metrics, next to screening calls.  *)

\* names and addresses of the model, near misses of them, short texts with
\* transposed letters, the empty text, punctuation only and None
MetricTexts ==
    { None, "", ".,", "a", "b", "ab", "ba", "a a", "martha", "marhta", "Li Wei", "Wei Li",
      "L. Wei", "5 Elm St", "5 Elm Rd", "P.O. Box 9", "Lahore", "aho" }

\* the three metrics tabulated once on MetricTexts
MetricTable ==
    [ a \in MetricTexts |-> [ b \in MetricTexts |->
        [ jaro |-> jaro_similarity(a, b),
          jw |-> jaro_winkler(a, b),
          jac |-> jaccard(tokenize(a), tokenize(b)) ] ] ]

\* jaro_similarity(a, b), jaro_winkler(a, b) and
\* jaccard(tokenize(a), tokenize(b)), read from MetricTable
CallMetrics(a, b) ==
    /\ pc = "idle"
    /\ call' = [fn |-> "metrics", arg |-> <<a, b>>, ret |-> MetricTable[a][b]]
    /\ pc' = "returned"
    /\ UNCHANGED <<WATCHLIST, set_order, payload, candidates, result, threads>>

NextScores ==
    \/ \E p \in Payloads : Screen(p)
    \/ \E a \in MetricTexts, b \in MetricTexts : CallMetrics(a, b)
    \/ Return

SpecScores == Init /\ [][NextScores]_vars

-----------------------------------------------------------------------------
(* Direct calls of normalize_text on texts made of abbreviations, the      *)
(* pieces of "p.o. box" and separators.                                     *)

\* the most pieces in a text
MaxTokens == 2

NormTokens ==
    {"St", "str", "rd", "ave", "av", "blvd", "ln", "P.O.", "p", "o", "box", "obox"}

\* nothing, a space, punctuation
NormSeps == {"", " ", "._", ", "}

RECURSIVE NormTexts(_)
NormTexts(n) ==
    IF n = 1 THEN NormTokens
    ELSE NormTexts(n - 1) \cup
         {x \o sep \o t : x \in NormTexts(n - 1), sep \in NormSeps, t \in NormTokens}

CallNormalize(x) ==
    /\ pc = "idle"
    /\ call' = [fn |-> "normalize_text", arg |-> x, ret |-> normalize_text(x)]
    /\ pc' = "returned"
    /\ UNCHANGED <<WATCHLIST, set_order, payload, candidates, result, threads>>

NextNormalize ==
    \/ \E x \in NormTexts(MaxTokens) : CallNormalize(x)
    \/ Return

\* neither the watchlist nor the sanctioned countries play a part
InitNormalize == Init /\ WATCHLIST = <<>> /\ set_order = SANCTIONED_COUNTRIES_RAW

SpecNormalize == InitNormalize /\ [][NextNormalize]_vars

-----------------------------------------------------------------------------
(* Direct calls of the scoring functions.                                  *)

\* country fields: absent, empty, blank or punctuation only, codes and names
\* in several spellings, the alias of a sanctioned country
BonusCountries ==
    { None, "", " ", "-", ".", "CN", "cn", "C.N.", "c n", "cn!", "AE", "ae.",
      "ukraine", " Ukraine", "UKRAINE;", "ukraise", "Ukraise", "u-k-r-a-i-s-e" }

CallCountryBonus(input_country, wl_country) ==
    /\ pc = "idle"
    /\ call' = [fn |-> "country_bonus", arg |-> <<input_country, wl_country>>,
                ret |-> country_bonus(input_country, wl_country)]
    /\ pc' = "returned"
    /\ UNCHANGED <<WATCHLIST, set_order, payload, candidates, result, threads>>

\* the most aliases of an entry
MaxAka == 2

\* aliases: the words of a primary name in another order, abbreviated, with
\* punctuation
AliasNames == {"Wei Li", "L. Wei", "GT Co."}

CallNameSimilarity(input_name, wl_name, wl_aka) ==
    /\ pc = "idle"
    /\ call' = [fn |-> "name_similarity", arg |-> <<input_name, wl_name, wl_aka>>,
                ret |-> name_similarity(input_name, wl_name, wl_aka)]
    /\ pc' = "returned"
    /\ UNCHANGED <<WATCHLIST, set_order, payload, candidates, result, threads>>

\* dates of birth: absent, empty, well formed, without leading zeros, days
\* that do not exist, other formats, trailing text
DobTexts ==
    { None, "", "1990-02-01", "1990-2-1", "1990-02- 1", "1990-02-02", "1983-11-23",
      "31-12-1990", "1990-02-30", "2000-02-29", "1900-02-29", "1990-13-01",
      "1990-02-01 ", "1990/02/01", "19900201", "0000-01-01", "1990-02-011", "dob" }

CallDobSimilarity(input_dob, wl_dob) ==
    /\ pc = "idle"
    /\ call' = [fn |-> "dob_similarity", arg |-> <<input_dob, wl_dob>>,
                ret |-> dob_similarity(input_dob, wl_dob)]
    /\ pc' = "returned"
    /\ UNCHANGED <<WATCHLIST, set_order, payload, candidates, result, threads>>

\* the longest token list
MaxList == 2

\* token lists, with repeated tokens and in every order
TokenLists == SeqsUpTo({"a", "b", "c"}, MaxList)

CallJaccard(a_tokens, b_tokens) ==
    /\ pc = "idle"
    /\ call' = [fn |-> "jaccard", arg |-> <<a_tokens, b_tokens>>,
                ret |-> jaccard(a_tokens, b_tokens)]
    /\ pc' = "returned"
    /\ UNCHANGED <<WATCHLIST, set_order, payload, candidates, result, threads>>

\* the longest string given to jaro_similarity
MaxJaro == 4

\* the strings of at most n letters a and b
RECURSIVE JaroStrings(_)
JaroStrings(n) ==
    IF n = 0 THEN {""}
    ELSE JaroStrings(n - 1)
         \cup {q \o c : q \in {x \in JaroStrings(n - 1) : Len(x) = n - 1}, c \in {"a", "b"}}

CallJaro(s1, s2) ==
    /\ pc = "idle"
    /\ call' = [fn |-> "jaro_similarity", arg |-> <<s1, s2>>,
                ret |-> jaro_similarity(s1, s2)]
    /\ pc' = "returned"
    /\ UNCHANGED <<WATCHLIST, set_order, payload, candidates, result, threads>>

NextScoring ==
    \/ \E a \in BonusCountries, b \in BonusCountries : CallCountryBonus(a, b)
    \/ \E a \in {"", "Wei, Li", "LLC GT", "Hafiz"}, b \in {"Li Wei", "GT LLC", "Hafiz"},
          aka \in {NoAka} \cup SeqsUpTo(AliasNames, MaxAka) :
          CallNameSimilarity(a, b, aka)
    \/ \E a \in DobTexts, b \in DobTexts : CallDobSimilarity(a, b)
    \/ \E a \in TokenLists, b \in TokenLists : CallJaccard(a, b)
    \/ \E s1 \in JaroStrings(MaxJaro), s2 \in JaroStrings(MaxJaro) : CallJaro(s1, s2)
    \/ Return

SpecScoring == InitNormalize /\ [][NextScoring]_vars

-----------------------------------------------------------------------------
(* The JSON extraction of the explanation engine (paymentscreening_v3):    *)
(* direct calls of _extract_json_blocks on contexts made of braces, free   *)
(* text and the member prefix "k": .  Over these characters the JSON       *)
(* objects are {} and {"k":V} with V an object; the dict that json.loads   *)
(* returns is represented by the number of its nested members.             *)

JSONDecodeError == 0 - 1

\* json.loads(snippet): the dict, or JSONDecodeError
RECURSIVE json_loads(_)
json_loads(snippet) ==
    IF snippet = "{}" THEN 0
    ELSE IF /\ Len(snippet) >= 8
            /\ SubSeq(snippet, 1, 5) = "{\"k\":"
            /\ Char(snippet, Len(snippet)) = "}"
         THEN LET value == json_loads(SubSeq(snippet, 6, Len(snippet) - 1))
              IN  IF value = JSONDecodeError THEN JSONDecodeError ELSE value + 1
         ELSE JSONDecodeError

\* the loop `for i, ch in enumerate(ctx)` from character i on (1-based);
\* start is the index of the opening brace, 0 standing for None
RECURSIVE ExtractLoop(_, _, _, _, _)
ExtractLoop(ctx, i, stack, start, blocks) ==
    IF i > Len(ctx) THEN blocks
    ELSE IF Char(ctx, i) = "{"
         THEN ExtractLoop(ctx, i + 1, stack + 1, IF stack = 0 THEN i ELSE start, blocks)
    ELSE IF Char(ctx, i) = "}"
         THEN IF stack - 1 = 0 /\ start # 0
              THEN ExtractLoop(ctx, i + 1, stack - 1, 0,
                               IF json_loads(SubSeq(ctx, start, i)) = JSONDecodeError
                               THEN blocks
                               ELSE Append(blocks, json_loads(SubSeq(ctx, start, i))))
              ELSE ExtractLoop(ctx, i + 1, stack - 1, start, blocks)
    ELSE ExtractLoop(ctx, i + 1, stack, start, blocks)

_extract_json_blocks(ctx) == ExtractLoop(ctx, 1, 0, 0, <<>>)

\* the most pieces in a context
MaxPieces == 5

\* the contexts of at most n pieces: an opening brace, a closing brace, free
\* text, the prefix of a member
RECURSIVE Contexts(_)
Contexts(n) ==
    IF n = 0 THEN {""}
    ELSE Contexts(n - 1)
         \cup {q \o c : q \in Contexts(n - 1), c \in {"{", "}", "x", "\"k\":"}}

\* blocks = _extract_json_blocks(context or "")
CallExtract(context) ==
    /\ pc = "idle"
    /\ call' = [fn |-> "_extract_json_blocks", arg |-> context,
                ret |-> _extract_json_blocks(OrEmpty(context))]
    /\ pc' = "returned"
    /\ UNCHANGED <<WATCHLIST, set_order, payload, candidates, result, threads>>

NextExplain ==
    \/ \E context \in Contexts(MaxPieces) : CallExtract(context)
    \/ Return

SpecExplain == InitNormalize /\ [][NextExplain]_vars

-----------------------------------------------------------------------------
(* Properties of screen_payment, stated on the state in which a call has   *)
(* returned: payload is its argument, candidates the list its loop built   *)
(* (in generation order), result the dict it returned.                     *)

Screened == pc = "returned" /\ payload # NoPayload

AnyTrigger(bd) == bd.sanction_party_country \/ bd.sanction_address_hit

\* C1: whenever the returned sanction flag is set, the decision is ESCALATE
\* with reason "Sanctioned Country", whatever the candidate scores are.
C1_SanctionOverride ==
    (Screened /\ result.sanction_flag)
        => (result.decision = "ESCALATE" /\ result.reason = "Sanctioned Country")

\* the flag is set although every candidate scores 0 and the only trigger is
\* the beneficiary's address
C1_Witness ==
    /\ Screened
    /\ result.sanction_flag
    /\ result.decision = "ESCALATE"
    /\ candidates # <<>>
    /\ \A i \in 1..Len(candidates) :
          /\ candidates[i].score = 0
          /\ ~candidates[i].breakdown.sanction_party_country
          /\ candidates[i].breakdown.sanction_address_hit
                 <=> candidates[i].role = "BENEFICIARY"

\* C2: without the sanction flag the result is ESCALATE / "Score Threshold"
\* exactly when the best score is at least 0.80 and RELEASE / "Below
\* Threshold" otherwise; no fourth (decision, reason) pair is ever returned.
C2_ThresholdDecision ==
    Screened =>
        /\ <<result.decision, result.reason>> \in
               { <<"ESCALATE", "Sanctioned Country">>,
                 <<"ESCALATE", "Score Threshold">>,
                 <<"RELEASE", "Below Threshold">> }
        /\ ~result.sanction_flag =>
               IF 5 * result.best_score >= 4 * SCALE
               THEN result.decision = "ESCALATE" /\ result.reason = "Score Threshold"
               ELSE result.decision = "RELEASE" /\ result.reason = "Below Threshold"

\* a best score of exactly 0.80 without sanction flag, escalated
C2_Witness ==
    /\ Screened
    /\ ~result.sanction_flag
    /\ 5 * result.best_score = 4 * SCALE
    /\ result.decision = "ESCALATE"
    /\ result.reason = "Score Threshold"

\* C3: the returned sanction flag is true iff some generated candidate's
\* breakdown has a sanctioned party country or a sanctioned address mention,
\* and iff the list of sanction reasons is not empty.
C3_FlagIffTrigger ==
    Screened =>
        /\ result.sanction_flag
               <=> \E i \in 1..Len(candidates) : AnyTrigger(candidates[i].breakdown)
        /\ result.sanction_flag <=> result.sanction_reasons # <<>>

\* the flag set by the payer's address alone, next to candidates without trigger
C3_Witness ==
    /\ Screened
    /\ result.sanction_flag
    /\ result.sanction_reasons # <<>>
    /\ \A i \in 1..Len(candidates) :
          /\ ~candidates[i].breakdown.sanction_party_country
          /\ candidates[i].breakdown.sanction_address_hit <=> candidates[i].role = "PAYER"

\* the number of elements of seq that are candidates of entry wl in role
CountOf(seq, wl, role) ==
    Cardinality({i \in 1..Len(seq) : seq[i].wl = wl /\ seq[i].role = role})

\* C4: for a watchlist of N entries the returned candidate list has exactly
\* 2N elements, one PAYER and one BENEFICIARY candidate per watchlist entry.
C4_CandidateCount ==
    Screened =>
        /\ Len(result.candidates) = 2 * Len(WATCHLIST)
        /\ \A k \in 1..Len(WATCHLIST) : \A role \in {"PAYER", "BENEFICIARY"} :
              CountOf(result.candidates, WATCHLIST[k], role)
                  = Cardinality({j \in 1..Len(WATCHLIST) : WATCHLIST[j] = WATCHLIST[k]})

\* two different entries, four candidates, one of them with score 0
C4_Witness ==
    /\ Screened
    /\ Len(WATCHLIST) = 2
    /\ WATCHLIST[1] # WATCHLIST[2]
    /\ Len(result.candidates) = 4
    /\ \E i \in 1..4 : result.candidates[i].score = 0
    /\ \E i \in 1..4 : result.candidates[i].score > 0

\* the fields of the result that report the best candidate
ReportedBest ==
    [role |-> result.best_role, wl |-> result.best_wl, score |-> result.best_score,
     breakdown |-> result.breakdown]

\* C5: candidates are generated entry by entry in watchlist order, PAYER
\* before BENEFICIARY; the reported best candidate is an element of that list
\* with the maximum score, and among several such the one generated first.
C5_BestIsFirstMax ==
    Screened =>
        /\ Len(candidates) = 2 * Len(WATCHLIST)
        /\ \A k \in 1..Len(WATCHLIST) :
              /\ candidates[2 * k - 1].role = "PAYER"
              /\ candidates[2 * k - 1].wl = WATCHLIST[k]
              /\ candidates[2 * k].role = "BENEFICIARY"
              /\ candidates[2 * k].wl = WATCHLIST[k]
        /\ candidates # <<>> =>
              \E i \in 1..Len(candidates) :
                  /\ ReportedBest = candidates[i]
                  /\ \A j \in 1..Len(candidates) : candidates[j].score <= candidates[i].score
                  /\ \A j \in 1..(i - 1) : candidates[j].score < candidates[i].score

\* the payer and the beneficiary candidate of one entry share the maximum,
\* and the payer candidate is reported
C5_Witness ==
    /\ Screened
    /\ \E i \in 1..Len(candidates) : \E j \in (i + 1)..Len(candidates) :
          /\ candidates[i].score = candidates[j].score
          /\ candidates[i].score > 0
          /\ candidates[i] # candidates[j]
          /\ \A h \in 1..Len(candidates) : candidates[h].score <= candidates[i].score
          /\ ReportedBest = candidates[i]
          /\ ReportedBest # candidates[j]

\* the elements of seq that have score v, in their order
WithScore(seq, v) ==
    LET Has(c) == c.score = v IN SelectSeq(seq, Has)

\* C6: the returned candidate list is a permutation of the generated
\* candidates in non-increasing score order, equal scores keeping their
\* generation order; with a non-empty watchlist its head is the reported best.
C6_StableDescending ==
    Screened =>
        /\ Len(result.candidates) = Len(candidates)
        /\ \A i \in 1..(Len(result.candidates) - 1) :
              result.candidates[i].score >= result.candidates[i + 1].score
        /\ \A i \in 1..Len(candidates) :
              WithScore(result.candidates, candidates[i].score)
                  = WithScore(candidates, candidates[i].score)
        /\ \A i \in 1..Len(result.candidates) :
              \E j \in 1..Len(candidates) : result.candidates[i] = candidates[j]
        /\ WATCHLIST # <<>> => result.candidates[1] = ReportedBest

\* the sort moved candidates, and two different candidates of equal score
\* came out in generation order
C6_Witness ==
    /\ Screened
    /\ result.candidates # candidates
    /\ \E i \in 1..Len(candidates) : \E j \in (i + 1)..Len(candidates) :
          /\ candidates[i].score = candidates[j].score
          /\ candidates[i] # candidates[j]
          /\ \E a \in 1..Len(candidates) : \E b \in (a + 1)..Len(candidates) :
                /\ result.candidates[a] = candidates[i]
                /\ result.candidates[b] = candidates[j]

\* C7: with an empty watchlist every call returns an empty candidate list,
\* best score 0, RELEASE and "Below Threshold", also for a payload with a
\* sanctioned party country.
C7_EmptyWatchlist ==
    (Screened /\ WATCHLIST = <<>>) =>
        /\ result.candidates = <<>>
        /\ result.best_score = 0
        /\ result.decision = "RELEASE"
        /\ result.reason = "Below Threshold"

\* a returned call on the empty watchlist whose payer or beneficiary country
\* is sanctioned
C7_Witness ==
    /\ Screened
    /\ WATCHLIST = <<>>
    /\ is_sanctioned_country(payload.payer_country)[1]
          \/ is_sanctioned_country(payload.benef_country)[1]
    /\ result.decision = "RELEASE"

\* the line of one trigger, or nothing when it does not fire
LineIf(hit, text) == IF hit[1] THEN <<text \o hit[2]>> ELSE <<>>

\* the lines one watchlist entry adds for payload p: payer country, payer
\* address, beneficiary country, beneficiary address
TriggerLines(p) ==
    LineIf(is_sanctioned_country(p.payer_country), "PAYER country in sanctioned list: ")
    \o LineIf(address_has_sanctioned_country(p.payer_address, set_order),
              "PAYER address mentions sanctioned country: ")
    \o LineIf(is_sanctioned_country(p.benef_country),
              "BENEFICIARY country in sanctioned list: ")
    \o LineIf(address_has_sanctioned_country(p.benef_address, set_order),
              "BENEFICIARY address mentions sanctioned country: ")

RECURSIVE Repeat(_, _)
Repeat(seq, n) == IF n = 0 THEN <<>> ELSE seq \o Repeat(seq, n - 1)

\* C8: the sanction reasons hold, entry by entry, the lines of the triggers
\* that fire (payer country, payer address, beneficiary country, beneficiary
\* address), repeated for every watchlist entry: k * N lines, no deduplication.
C8_ReasonLines ==
    Screened =>
        /\ result.sanction_reasons = Repeat(TriggerLines(payload), Len(WATCHLIST))
        /\ Len(result.sanction_reasons) = Len(TriggerLines(payload)) * Len(WATCHLIST)

\* all four triggers fire on two watchlist entries: eight lines, each twice
C8_Witness ==
    /\ Screened
    /\ Len(WATCHLIST) = 2
    /\ Len(result.sanction_reasons) = 8
    /\ \A i \in 1..4 : result.sanction_reasons[i] = result.sanction_reasons[i + 4]

\* the documented misspelling in several spellings
UkraiseForms ==
    { "ukraise", "Ukraise", "UKRAISE", " ukraise ", "ukraise.", "(Ukraise)",
      "u k r a i s e", "U K R A I S E", "u-k-r-a-i-s-e", "u.k.r.a.i.s.e." }

\* country is a spelling of the misspelling: "ukraise" or "u k r a i s e" up
\* to letter case, stripped punctuation and surrounding space
IsUkraise(country) == _norm(country) \in {"ukraise", "u k r a i s e"}

\* payload p with every misspelt country field spelt "ukraine"
Respelt(p) ==
    [p EXCEPT !.payer_country = IF IsUkraise(@) THEN "ukraine" ELSE @,
              !.benef_country = IF IsUkraise(@) THEN "ukraine" ELSE @]

SameVerdict(r1, r2) ==
    /\ r1.sanction_flag = r2.sanction_flag
    /\ r1.sanction_reasons = r2.sanction_reasons
    /\ r1.decision = r2.decision

\* C9: every spelling of the misspelling canonicalizes to "ukraine", and a
\* call with such a country field returns the sanction flag, sanction reasons
\* and decision of the call with the field spelt "ukraine".
C9_AliasUkraise ==
    /\ \A f \in UkraiseForms : IsUkraise(f) /\ canonical_country(f) = "ukraine"
    /\ Screened => SameVerdict(result, screen_payment(Respelt(payload)))

\* a flagged call whose beneficiary country is a misspelling, the payer being clean
C9_Witness ==
    /\ Screened
    /\ IsUkraise(payload.benef_country)
    /\ ~IsUkraise(payload.payer_country)
    /\ ~is_sanctioned_country(payload.payer_country)[1]
    /\ ~address_has_sanctioned_country(payload.payer_address, set_order)[1]
    /\ result.sanction_flag
    /\ result.sanction_reasons[1] = "BENEFICIARY country in sanctioned list: ukraine"

\* the four fields of the party of payload p that a candidate of role scores
PartyOf(p, role) ==
    IF role = "PAYER"
    THEN <<p.payer_name, p.payer_address, p.payer_country, p.payer_dob>>
    ELSE <<p.benef_name, p.benef_address, p.benef_country, p.benef_dob>>

\* party pt carries the primary name of entry wl, its country (up to letter
\* case) and its date of birth
ExactMatch(pt, wl) ==
    /\ pt[1] = wl.name
    /\ wl.country # ""
    /\ upper(pt[3]) = upper(wl.country)
    /\ wl.dob # None
    /\ pt[4] = wl.dob

\* candidate c of the call on payload p comes from a party that matches its entry
MatchedCandidate(c, p) == ExactMatch(PartyOf(p, c.role), c.wl)

\* C11 as stated: a party with the entry's primary name, country and date of
\* birth and no sanction trigger has, for any address, name score 1.0, country
\* bonus 0.05, DOB score 1.0, total 1.0, and the call escalates on the score.
C11_AsStated ==
    Screened =>
        \A i \in 1..Len(candidates) :
            (MatchedCandidate(candidates[i], payload) /\ ~result.sanction_flag) =>
                /\ candidates[i].breakdown.name = SCALE
                /\ candidates[i].breakdown.country = SCALE \div 20
                /\ candidates[i].breakdown.dob = SCALE
                /\ candidates[i].score = SCALE
                /\ result.decision = "ESCALATE"
                /\ result.reason = "Score Threshold"

\* C11: such a party has, for any address, name score 1.0, country bonus 0.05,
\* DOB score 1.0 and total min(1.0, 0.70 + 0.30 * address score); when its
\* address normalises to the entry's address the total is 1.0 and, no sanction
\* trigger firing, the call returns ESCALATE / "Score Threshold".
C11_ExactMatchScores ==
    Screened =>
        \A i \in 1..Len(candidates) :
            MatchedCandidate(candidates[i], payload) =>
                /\ candidates[i].breakdown.name = SCALE
                /\ candidates[i].breakdown.country = SCALE \div 20
                /\ candidates[i].breakdown.dob = SCALE
                /\ 10 * candidates[i].score
                       = Min2(10 * SCALE, 7 * SCALE + 3 * candidates[i].breakdown.address)
                /\ normalize_text(PartyOf(payload, candidates[i].role)[2])
                       = normalize_text(candidates[i].wl.address)
                   => /\ candidates[i].score = SCALE
                      /\ ~result.sanction_flag
                            => /\ result.decision = "ESCALATE"
                               /\ result.reason = "Score Threshold"

\* a matching party with an empty address: total 0.70, released
C11_Witness ==
    /\ Screened
    /\ ~result.sanction_flag
    /\ result.decision = "RELEASE"
    /\ \E i \in 1..Len(candidates) :
          /\ MatchedCandidate(candidates[i], payload)
          /\ PartyOf(payload, candidates[i].role)[2] = ""
          /\ candidates[i].breakdown.address = 0
          /\ 10 * candidates[i].score = 7 * SCALE

\* twenty times 0.60 * name + 0.30 * address + 0.05 * dob + country of breakdown bd
Weighted20(bd) == 12 * bd.name + 6 * bd.address + bd.dob + 20 * bd.country

\* C14: the total of every candidate is min(1.0, 0.60 * name + 0.30 * address
\* + 0.05 * dob + country bonus) of the four sub-scores its breakdown reports.
C14_WeightedTotal ==
    Screened =>
        \A i \in 1..Len(candidates) :
            20 * candidates[i].score
                = Min2(20 * SCALE, Weighted20(candidates[i].breakdown))

\* a candidate whose four sub-scores are all positive, the address score and
\* the total being below 1
C14_Witness ==
    /\ Screened
    /\ \E i \in 1..Len(candidates) :
          /\ candidates[i].breakdown.name > 0
          /\ candidates[i].breakdown.address > 0
          /\ candidates[i].breakdown.address < SCALE
          /\ candidates[i].breakdown.address # candidates[i].breakdown.name
          /\ candidates[i].breakdown.dob > 0
          /\ candidates[i].breakdown.country > 0
          /\ candidates[i].score < SCALE

InUnit(x) == 0 <= x /\ x <= SCALE

\* jaro_similarity(normalize_text(a), normalize_text(b)), as jaro_winkler
\* calls it, ends in an IndexError
JaroRaises(a, b) == jaro_similarity(normalize_text(a), normalize_text(b)) < 0

\* scoring party pt against entry wl raises
ScoringRaises(pt, wl) ==
    \/ JaroRaises(pt[1], wl.name)
    \/ \E k \in 1..Len(wl.aka) : JaroRaises(pt[1], wl.aka[k])
    \/ JaroRaises(pt[2], wl.address)

\* ScoringRaises on the texts of the model
RaisesTable == [pt \in Parties |-> [wl \in Entries |-> ScoringRaises(pt, wl)]]

\* C15: every call on a payload of eight strings, empty or malformed ones
\* included, returns a decision and a candidate for each entry and role without
\* an error; a party of four empty strings scores 0 against an entry with
\* non-empty name and address.
C15_GracefulDegradation ==
    Screened =>
        /\ result.decision \in {"ESCALATE", "RELEASE"}
        /\ Len(result.candidates) = 2 * Len(WATCHLIST)
        /\ \A i \in 1..Len(candidates) :
              /\ ~RaisesTable[PartyOf(payload, candidates[i].role)][candidates[i].wl]
              /\ InUnit(candidates[i].score)
              /\ ( /\ PartyOf(payload, candidates[i].role) = <<"", "", "", "">>
                   /\ candidates[i].wl.name # ""
                   /\ candidates[i].wl.address # "" )
                 => candidates[i].score = 0

\* an all-empty payer next to a beneficiary with a malformed date of birth
C15_Witness ==
    /\ Screened
    /\ WATCHLIST # <<>>
    /\ PartyOf(payload, "PAYER") = <<"", "", "", "">>
    /\ payload.benef_dob = "31-12-1990"
    /\ strptime(payload.benef_dob) = <<>>
    /\ result.decision = "RELEASE"
    /\ \A i \in 1..Len(candidates) :
          candidates[i].role = "PAYER" => candidates[i].score = 0

MetricsCalled == pc = "returned" /\ call.fn = "metrics"

\* C13: in every candidate the name, address and DOB scores and the total lie
\* in [0, 1] and the country bonus is 0 or 0.05; jaro_similarity, jaro_winkler
\* and jaccard return values in [0, 1].
C13_ScoreRanges ==
    /\ Screened =>
          \A i \in 1..Len(candidates) :
              /\ InUnit(candidates[i].breakdown.name)
              /\ InUnit(candidates[i].breakdown.address)
              /\ InUnit(candidates[i].breakdown.dob)
              /\ candidates[i].breakdown.country \in {0, SCALE \div 20}
              /\ InUnit(candidates[i].score)
    /\ MetricsCalled =>
          /\ InUnit(call.ret.jaro)
          /\ InUnit(call.ret.jw)
          /\ InUnit(call.ret.jac)

\* two texts with a common prefix: the boosted value lies strictly between the
\* plain Jaro value and 1, the token overlap is partial
C13_Witness ==
    /\ MetricsCalled
    /\ 0 < call.ret.jaro
    /\ call.ret.jaro < call.ret.jw
    /\ call.ret.jw < SCALE
    /\ 0 < call.ret.jac
    /\ call.ret.jac < SCALE

-----------------------------------------------------------------------------
(* Properties of address_has_sanctioned_country, stated on the state in    *)
(* which a direct call has returned.                                        *)

AddressCalled == pc = "returned" /\ call.fn = "address_has_sanctioned_country"

\* w occurs in s with, on each side, the end of s or a character outside inner
OccursBetween(s, w, inner) ==
    \E i \in 1..Len(s) :
        /\ i + Len(w) - 1 <= Len(s)
        /\ SubSeq(s, i, i + Len(w) - 1) = w
        /\ i = 1 \/ Char(s, i - 1) \notin inner
        /\ i + Len(w) - 1 = Len(s) \/ Char(s, i + Len(w)) \notin inner

\* some sanctioned name occurs in the normalised address between characters
\* outside inner
NameBetween(addr, inner) ==
    \E sc \in SANCTIONED_COUNTRIES : OccursBetween(_norm(addr), sc, inner)

\* letters and digits: what is left when spaces and all punctuation, the
\* underscore included, delimit a word
Alnum == LowerSet \cup UpperSet \cup DigitSet

\* C10 as stated: a hit exactly when a sanctioned name occurs delimited by
\* spaces, punctuation or the string ends, and (False, None) otherwise.
C10_AsStated ==
    AddressCalled =>
        /\ call.ret[1] <=> NameBetween(call.arg, Alnum)
        /\ ~call.ret[1] => call.ret = <<FALSE, None>>

\* C10: a hit exactly when a sanctioned name occurs in the normalised address
\* with no letter, digit or underscore directly before or after it; the hit
\* names such a country; otherwise the result is (False, None).
C10_WholeWord ==
    AddressCalled =>
        /\ call.ret[1] <=> NameBetween(call.arg, WordSet)
        /\ call.ret[1] =>
              /\ call.ret[2] \in SANCTIONED_COUNTRIES
              /\ OccursBetween(_norm(call.arg), call.ret[2], WordSet)
        /\ ~call.ret[1] => call.ret = <<FALSE, None>>

\* "iran" inside a longer word: no hit
C10_Witness ==
    /\ AddressCalled
    /\ SearchWord_Substring(_norm(call.arg), "iran")
    /\ ~NameBetween(call.arg, Alnum)
    /\ call.ret = <<FALSE, None>>

-----------------------------------------------------------------------------
(* Properties of normalize_text, stated on the state in which a direct     *)
(* call has returned.                                                       *)

NormalizeCalled == pc = "returned" /\ call.fn = "normalize_text"

\* C12: normalize_text is idempotent: a second pass over its result changes
\* nothing, whichever abbreviations the first pass expanded.
C12_Idempotent ==
    NormalizeCalled => normalize_text(call.ret) = call.ret

\* a call that rewrote a dotted, spaced-out "P.O. box"
C12_Witness ==
    /\ NormalizeCalled
    /\ Len(call.arg) >= 8
    /\ call.ret = "po box"

-----------------------------------------------------------------------------
(* Properties of the route POST /screen, stated on the state in which a    *)
(* request has been answered.                                               *)

RouteCalled == pc = "returned" /\ call.fn = "screen"

\* the required fields that body data does not hold
AbsentRequired(data) == {f \in Range(REQUIRED_FIELDS) : f \notin DOMAIN data}

\* the date of birth data gives under field f, empty when it gives none
DobOf(data, f) == IF f \in DOMAIN data THEN data[f] ELSE ""

-----------------------------------------------------------------------------
(* Properties of concurrent screen_payment calls.                          *)

\* C17: no step of a screen_payment call changes WATCHLIST or the set of
\* sanctioned countries, and under every interleaving a finished call holds
\* the result the call returns when run alone on its payload.
C17_Isolation ==
    /\ [](\A t \in Threads :
            threads[t].pc = "done" => threads[t].result = screen_payment(threads[t].payload))
    /\ [][WATCHLIST' = WATCHLIST /\ set_order' = set_order]_vars

\* a call finished while the other caller is in the middle of its loop
C17_Witness ==
    /\ Len(WATCHLIST) = 2
    /\ \E t \in Threads : \E u \in Threads :
          /\ threads[t].pc = "done"
          /\ threads[t].result.sanction_flag
          /\ threads[u].pc = "loop"
          /\ threads[u].k = 2
          /\ threads[u].payload # threads[t].payload

\* the sanction_address_match values that the candidates of role carry in r
AddressMatches(r, role) ==
    {r.candidates[i].breakdown.sanction_address_match :
        i \in {j \in 1..Len(r.candidates) : r.candidates[j].role = role}}

-----------------------------------------------------------------------------
(* Properties of is_sanctioned_country and of the alias handling of        *)
(* address_has_sanctioned_country, stated on returned direct calls.        *)

CountryCalled == pc = "returned" /\ call.fn = "is_sanctioned_country"

\* the two-letter codes of the sanctioned countries
CountryOfCode(code) ==
    IF code = "pk" THEN "pakistan"
    ELSE IF code = "ir" THEN "iran"
    ELSE IF code = "sy" THEN "syria"
    ELSE IF code = "ua" THEN "ukraine"
    ELSE IF code = "cu" THEN "cuba"
    ELSE IF code = "kr" THEN "south korea"
    ELSE code

\* the country that a field names by code, long-form name or alias
CountryNamed(field) ==
    IF IsUkraise(field) THEN "ukraine" ELSE CountryOfCode(_norm(field))

\* C19: is_sanctioned_country reports a sanctioned country as sanctioned
\* whether the field gives its two-letter code, its long-form name or a
\* documented alias.
C19_AsStated ==
    (CountryCalled /\ CountryNamed(call.arg) \in SANCTIONED_COUNTRIES)
        => call.ret[1] = TRUE

\* C20: address_has_sanctioned_country resolves aliases before matching: an
\* address whose whole text is an alias of a sanctioned country is a hit that
\* reports the canonical name.
C20_AsStated ==
    (AddressCalled /\ canonical_country(call.arg) \in SANCTIONED_COUNTRIES)
        => call.ret = <<TRUE, canonical_country(call.arg)>>

-----------------------------------------------------------------------------
(* Properties of the scoring functions, stated on the candidates of a      *)
(* returned screening call and on returned direct calls.                   *)

\* the four sanction fields of breakdown bd
SanctionFields(bd) ==
    << bd.sanction_party_country, bd.sanction_party_country_name,
       bd.sanction_address_hit, bd.sanction_address_match >>

\* the country and the address of the party that candidate c scores
CountryAndAddress(c, p) == << PartyOf(p, c.role)[3], PartyOf(p, c.role)[2] >>

\* C21: the sanction fields of a breakdown depend only on the country and the
\* address of the input party, never on the watchlist entry: all candidates
\* of one call whose role is the same (or whose parties have the same country
\* and address) carry the same four sanction fields, and the country name is
\* present exactly when the country flag is true.
C21_SanctionFieldsOfParty ==
    Screened =>
        \A i \in 1..Len(candidates) :
            /\ \A j \in 1..Len(candidates) :
                   ( \/ candidates[i].role = candidates[j].role
                     \/ CountryAndAddress(candidates[i], payload)
                            = CountryAndAddress(candidates[j], payload) )
                   => SanctionFields(candidates[i].breakdown)
                          = SanctionFields(candidates[j].breakdown)
            /\ (candidates[i].breakdown.sanction_party_country_name # None)
                   <=> candidates[i].breakdown.sanction_party_country

\* two different entries scored against a payer in a sanctioned country and
\* a beneficiary whose address alone names one: the scores differ between the
\* entries, the sanction fields do not
C21_Witness ==
    /\ Screened
    /\ Len(candidates) = 4
    /\ candidates[1].wl # candidates[3].wl
    /\ candidates[1].score # candidates[3].score
    /\ candidates[1].breakdown.sanction_party_country
    /\ candidates[3].breakdown.sanction_party_country_name = "ukraine"
    /\ ~candidates[2].breakdown.sanction_party_country
    /\ candidates[4].breakdown.sanction_party_country_name = None
    /\ candidates[2].breakdown.sanction_address_hit
    /\ candidates[4].breakdown.sanction_address_match = "cuba"

BonusCalled == pc = "returned" /\ call.fn = "country_bonus"

\* a country string that is given and not empty
Given(s) == s # None /\ s # ""

\* C22: country_bonus is 0.05 exactly when both country strings are non-empty
\* and equal after lower-casing, punctuation stripping and whitespace
\* collapsing, else 0; the alias table plays no part: an alias of a sanctioned
\* country against the country itself gets 0 although the alias is reported
\* as sanctioned.
C22_CountryBonus ==
    BonusCalled =>
        /\ call.ret = SCALE \div 20
              <=> /\ Given(call.arg[1])
                  /\ Given(call.arg[2])
                  /\ _norm(call.arg[1]) = _norm(call.arg[2])
        /\ call.ret \in {0, SCALE \div 20}
        /\ (IsUkraise(call.arg[1]) /\ _norm(call.arg[2]) = "ukraine")
              => /\ call.ret = 0
                 /\ is_sanctioned_country(call.arg[1]) = <<TRUE, "ukraine">>

\* the alias in another spelling against the country it stands for
C22_Witness ==
    /\ BonusCalled
    /\ call.arg = <<"u-k-r-a-i-s-e", "UKRAINE;">>
    /\ canonical_country(call.arg[1]) = canonical_country(call.arg[2])
    /\ call.ret = 0

NameCalled == pc = "returned" /\ call.fn = "name_similarity"

\* the names of an entry with primary name wl_name and aliases wl_aka
NamesOf(wl_name, wl_aka) ==
    {wl_name} \cup (IF wl_aka = NoAka THEN {} ELSE Range(wl_aka))

\* the two metric values of input_name against one candidate name
BothMetrics(input_name, cand) ==
    { jaro_winkler(input_name, cand),
      jaccard(tokenize(input_name), tokenize(cand)) \div 2 }

\* v is the maximum of the metric values of input_name over the names
IsMaxOver(v, input_name, names) ==
    /\ \E c \in names : v \in BothMetrics(input_name, c)
    /\ \A c \in names : \A x \in BothMetrics(input_name, c) : x <= v

\* C23: name_similarity returns the maximum, over the primary name and every
\* alias and over both metrics, of jaro_winkler and 0.5 * jaccard of the
\* token lists; it is never below the score from the primary name alone, and
\* an entry with one more alias never scores lower.
C23_NameIsMaximum ==
    NameCalled =>
        /\ IsMaxOver(call.ret, call.arg[1], NamesOf(call.arg[2], call.arg[3]))
        /\ call.ret >= name_similarity(call.arg[1], call.arg[2], <<>>)
        /\ \A extra \in AliasNames :
              call.ret <= name_similarity(call.arg[1], call.arg[2],
                              Append(IF call.arg[3] = NoAka THEN <<>> ELSE call.arg[3],
                                     extra))

\* the second alias is the input in another spelling: the score is 1.0, above
\* the score of the primary name and of the first alias
C23_Witness ==
    /\ NameCalled
    /\ call.arg = <<"Wei, Li", "Li Wei", <<"L. Wei", "Wei Li">> >>
    /\ call.ret = SCALE
    /\ name_similarity("Wei, Li", "Li Wei", <<"L. Wei">>) < SCALE

\* the normalised texts differ at one of their first four characters
MismatchInWindow(a, b) ==
    \E k \in 1..4 : k <= Len(a) /\ k <= Len(b) /\ Char(a, k) # Char(b, k)

\* the number of leading characters, at most four, in which the texts agree
LeadingAgree(a, b) ==
    Cardinality({k \in 1..Min2(4, Min2(Len(a), Len(b))) : SubSeq(a, 1, k) = SubSeq(b, 1, k)})

\* the plain Jaro similarity of the normalised arguments of a metrics call
JaroOfNormalized == jaro_similarity(normalize_text(call.arg[1]), normalize_text(call.arg[2]))

\* what jaro_winkler returns when it boosts j for l leading characters
Boosted(j, l) == j + (l * (SCALE - j)) \div 10

\* C24 as stated: when the normalised strings mismatch somewhere within their
\* first four characters, jaro_winkler equals the plain Jaro similarity of the
\* normalised strings.
C24_AsStated ==
    (MetricsCalled /\ MismatchInWindow(normalize_text(call.arg[1]), normalize_text(call.arg[2])))
        => call.ret.jw = JaroOfNormalized

\* C24: jaro_winkler adds no prefix boost when the normalised strings
\* mismatch at their first character (or one of them is empty): the result is
\* then the plain Jaro similarity of the normalised strings.  A mismatch later
\* in the window keeps the boost for the l characters before it:
\* jaro + l * 0.1 * (1 - jaro).
C24_BoostUpToMismatch ==
    MetricsCalled =>
        /\ LeadingAgree(normalize_text(call.arg[1]), normalize_text(call.arg[2])) = 0
              => call.ret.jw = JaroOfNormalized
        /\ call.ret.jw
              = Boosted(JaroOfNormalized,
                        LeadingAgree(normalize_text(call.arg[1]), normalize_text(call.arg[2])))

\* the same two words in the other order: the first characters differ, the
\* Jaro similarity is positive and is returned as it is
C24_Witness ==
    /\ MetricsCalled
    /\ call.arg = <<"Li Wei", "Wei Li">>
    /\ MismatchInWindow(normalize_text(call.arg[1]), normalize_text(call.arg[2]))
    /\ call.ret.jw > 0
    /\ call.ret.jw = call.ret.jaro

\* C25: jaro_similarity returns 1.0 for every pair of equal strings, two empty
\* strings included, and 0.0 when exactly one of the two strings is empty.
C25_JaroEqualAndEmpty ==
    MetricsCalled =>
        /\ OrEmpty(call.arg[1]) = OrEmpty(call.arg[2]) => call.ret.jaro = SCALE
        /\ (OrEmpty(call.arg[1]) = "") # (OrEmpty(call.arg[2]) = "") => call.ret.jaro = 0

\* two empty strings
C25_Witness ==
    /\ MetricsCalled
    /\ call.arg = <<"", "">>
    /\ call.ret.jaro = SCALE

\* C26: for every string x, jaro_winkler(x, x) = 1.0, also when x is empty or
\* normalises to the empty string.
C26_WinklerReflexive ==
    (MetricsCalled /\ call.arg[1] = call.arg[2]) => call.ret.jw = SCALE

\* a text of punctuation, which normalises to the empty string
C26_Witness ==
    /\ MetricsCalled
    /\ call.arg = <<".,", ".,">>
    /\ normalize_text(call.arg[1]) = ""
    /\ call.ret.jw = SCALE

DobCalled == pc = "returned" /\ call.fn = "dob_similarity"

\* the text s parses as a YYYY-MM-DD date
Parses(s) == strptime(s) # <<>>

\* C27: dob_similarity returns 1.0 exactly when both values are present, both
\* parse as YYYY-MM-DD dates and denote the same calendar day; in every other
\* case (a value missing, empty or unparsable, or different days) it returns
\* 0.0, and it raises no error.
C27_DobSimilarity ==
    DobCalled =>
        /\ call.ret \in {0, SCALE}
        /\ call.ret = SCALE
              <=> /\ Given(call.arg[1])
                  /\ Given(call.arg[2])
                  /\ Parses(call.arg[1])
                  /\ Parses(call.arg[2])
                  /\ strptime(call.arg[1]) = strptime(call.arg[2])

\* the same day written with and without leading zeros
C27_Witness ==
    /\ DobCalled
    /\ call.arg = <<"1990-2-1", "1990-02-01">>
    /\ call.ret = SCALE

JaccardCalled == pc = "returned" /\ call.fn = "jaccard"

\* the list in reverse order
Reversed(seq) == [i \in 1..Len(seq) |-> seq[Len(seq) + 1 - i]]

\* C28: jaccard returns 1.0 when both token lists are empty, 0.0 when exactly
\* one is empty, and otherwise the size of the intersection over the size of
\* the union of the two token sets; the result does not change when a list is
\* reordered, when its tokens are repeated, or when the arguments are swapped.
C28_Jaccard ==
    JaccardCalled =>
        /\ (call.arg[1] = <<>> /\ call.arg[2] = <<>>) => call.ret = SCALE
        /\ (call.arg[1] = <<>>) # (call.arg[2] = <<>>) => call.ret = 0
        /\ (call.arg[1] # <<>> /\ call.arg[2] # <<>>) =>
              call.ret * Cardinality(Range(call.arg[1]) \cup Range(call.arg[2]))
                  = SCALE * Cardinality(Range(call.arg[1]) \cap Range(call.arg[2]))
        /\ call.ret = jaccard(Reversed(call.arg[1]), call.arg[2])
        /\ call.ret = jaccard(call.arg[1] \o call.arg[1], call.arg[2])
        /\ call.ret = jaccard(call.arg[2], call.arg[1])

\* a repeated token against two tokens in the other order: one token of two
\* is shared
C28_Witness ==
    /\ JaccardCalled
    /\ call.arg = << <<"a", "a">>, <<"b", "a">> >>
    /\ call.ret = SCALE \div 2

JaroCalled == pc = "returned" /\ call.fn = "jaro_similarity"

\* the positions of s1 and of s2 that the matching loop of a call has flagged
MatchedOf(s1, s2) == MatchLoop(s1, s2, 1, {}, {})

\* C29: for every pair of strings jaro_similarity returns a number: the
\* matching scan flags as many positions in the second string as in the
\* first, so the index k of the transposition pass never runs past the end of
\* the second string.
C29_JaroReturns ==
    JaroCalled =>
        /\ call.ret \in 0..SCALE
        /\ Cardinality(MatchedOf(call.arg[1], call.arg[2])[1])
              = Cardinality(MatchedOf(call.arg[1], call.arg[2])[2])
        /\ TransLoop(call.arg[1], call.arg[2],
                     MatchedOf(call.arg[1], call.arg[2])[1],
                     MatchedOf(call.arg[1], call.arg[2])[2], 1, 1, 0) >= 0

\* the last matched position of the second string is its last character, and
\* matched pairs are out of order: k ends at the end of the string
C29_Witness ==
    /\ JaroCalled
    /\ call.arg = <<"abab", "baba">>
    /\ Len(call.arg[2]) \in MatchedOf(call.arg[1], call.arg[2])[2]
    /\ 0 < call.ret
    /\ call.ret < SCALE

-----------------------------------------------------------------------------
(* Properties of _extract_json_blocks, stated on returned direct calls.    *)

ExtractCalled == pc = "returned" /\ call.fn = "_extract_json_blocks"

\* the spans <<first, last>> of the context that hold a JSON object
ObjectSpans(ctx) ==
    { sp \in (1..Len(ctx)) \X (1..Len(ctx)) :
        /\ sp[1] < sp[2]
        /\ Char(ctx, sp[1]) = "{"
        /\ Char(ctx, sp[2]) = "}"
        /\ json_loads(SubSeq(ctx, sp[1], sp[2])) # JSONDecodeError }

\* the number of braces that are open after the first i characters; a
\* closing brace with no open brace before it closes nothing
RECURSIVE OpenBraces(_, _)
OpenBraces(ctx, i) ==
    IF i = 0 THEN 0
    ELSE IF Char(ctx, i) = "{" THEN OpenBraces(ctx, i - 1) + 1
    ELSE IF Char(ctx, i) = "}" THEN Max2(0, OpenBraces(ctx, i - 1) - 1)
    ELSE OpenBraces(ctx, i - 1)

\* the spans of the objects that start outside every open brace
TopLevelSpans(ctx) ==
    {sp \in ObjectSpans(ctx) : OpenBraces(ctx, sp[1] - 1) = 0}

\* the objects of the spans, in order of appearance
RECURSIVE InOrder(_, _)
InOrder(ctx, spans) ==
    IF spans = {} THEN <<>>
    ELSE LET first == CHOOSE sp \in spans : \A other \in spans : sp[1] <= other[1]
         IN  <<json_loads(SubSeq(ctx, first[1], first[2]))>> \o InOrder(ctx, spans \ {first})

TopLevelObjects(ctx) == InOrder(ctx, TopLevelSpans(ctx))

\* C30: _extract_json_blocks returns, in order of appearance, every
\* top-level brace-balanced JSON object contained in the context, whatever
\* free text surrounds the objects.
C30_AsStated ==
    ExtractCalled => call.ret = TopLevelObjects(call.arg)

====
